---- MODULE Spec2Model ----
(***************************************************************************)
(* Model of jade/learn.py: the Learner adapter (fit / predict / save /     *)
(* load) and its flatten / inverse_flatten reshaping functions.            *)
(*                                                                         *)
(* Python values are tagged records of one shape, so that any two of them  *)
(* can be compared:                                                        *)
(*    k = "none"  None                                                     *)
(*    k = "atom"  a scalar (a label, a number); v is its value             *)
(*    k = "list"  a Python list; items are its elements                    *)
(*    k = "arr"   a numpy.ndarray; items are its rows                      *)
(***************************************************************************)
EXTENDS Integers, Sequences, FiniteSets, TLC

\* ------------------------------------------------------------- bounds
\* Longest innermost sequence of the generated nested inputs.
MaxLen == 2
\* Most groups at the level above it.
MaxGroups == 2
\* Most groups of groups in the three-level inputs.
MaxOuter == 1
\* Longest flat sequence handed directly to inverse_flatten.
MaxFlat == 3
\* Longest group-size record handed directly to inverse_flatten.
MaxZLen == 3
\* Largest group size in such a record.
MaxZ == 2

\* ------------------------------------------------------------- values
None == [k |-> "none", v |-> 0, items |-> << >>]
Atom(n) == [k |-> "atom", v |-> n, items |-> << >>]
List(s) == [k |-> "list", v |-> 0, items |-> s]
Arr(s) == [k |-> "arr", v |-> 0, items |-> s]

\* isinstance(Y, (list, tuple, numpy.ndarray))
IsSeq(V) == V.k \in {"list", "arr"}

\* len(V) of a list or an array
PyLen(V) == Len(V.items)

\* numpy.array(s) of a Python list s: an array with the same rows in the
\* same order.
numpy_array(s) == Arr(s)

Min2(a, b) == IF a < b THEN a ELSE b
Max2(a, b) == IF a > b THEN a ELSE b

\* Python's normalisation of a slice bound i for a sequence of length n.
SliceBound(i, n) == IF i < 0 THEN Max2(i + n, 0) ELSE Min2(i, n)

\* The elements of V[a:b], Python's slice of a list or an array.
SliceItems(V, a, b) ==
    LET n == PyLen(V)
        lo == SliceBound(a, n)
        hi == SliceBound(b, n)
    IN  IF hi <= lo THEN << >>
        ELSE [i \in 1..(hi - lo) |-> V.items[lo + i]]

\* A slice that ignores its start (the cursor is not applied).
PySlice_NoCursor(V, a, b) == [V EXCEPT !.items = SliceItems(V, 0, b - a)]

\* V[a:b]: a list's slice is a list, an array's an array.
PySlice(V, a, b) == [V EXCEPT !.items = SliceItems(V, a, b)]

\* ------------------------------------------------------------- flatten
\* What a call of flatten gives back: exc is the exception it raised
\* ("none" when it returned), arity the length of the returned tuple, calls
\* the number of invocations of flatten the call made, itself included.
Raised(e, n) ==
    [exc |-> e, arity |-> 0, fX |-> None, fY |-> None, fZ |-> None, calls |-> n]

\* The else branch with the wrapping forgotten.
FlattenBase_NoWrap(X, Y) ==
    [exc |-> "none", arity |-> 2, fX |-> X, fY |-> Y, fZ |-> None, calls |-> 1]

\* return [X], [Y]
FlattenBase(X, Y) ==
    [exc |-> "none", arity |-> 2, fX |-> List(<<X>>), fY |-> List(<<Y>>),
     fZ |-> None, calls |-> 1]

\* return numpy.array(fX), numpy.array(fY), fZ
FlattenReturn(fX, fY, fZ, n) ==
    [exc |-> "none", arity |-> 3, fX |-> numpy_array(fX),
     fY |-> numpy_array(fY), fZ |-> List(fZ), calls |-> n]

\* fZ.append(len(X[idx])): the entry appended for group X[idx].
GroupSize(Xi) == Atom(PyLen(Xi))

RECURSIVE flatten(_, _)
RECURSIVE flattenLoop(_, _, _, _, _, _, _)

\* The for loop of flatten from index idx on (1-based), with the
\* accumulators fX, fY, fZ and n invocations made so far.
flattenLoop(X, Y, idx, fX, fY, fZ, n) ==
    IF idx > PyLen(X) THEN FlattenReturn(fX, fY, fZ, n)
    ELSE IF idx > PyLen(Y) THEN Raised("IndexError", n)
    ELSE LET dat == flatten(X.items[idx], Y.items[idx]) IN
         IF dat.exc # "none" THEN Raised(dat.exc, n + dat.calls)
         ELSE IF ~IsSeq(X.items[idx]) THEN Raised("TypeError", n + dat.calls)
         ELSE flattenLoop(X, Y, idx + 1,
                          fX \o dat.fX.items, fY \o dat.fY.items,
                          Append(fZ, GroupSize(X.items[idx])),
                          n + dat.calls)

\* Learner.flatten(X, Y)
flatten(X, Y) ==
    IF IsSeq(Y)
    THEN IF ~IsSeq(X) THEN Raised("TypeError", 1)
         ELSE flattenLoop(X, Y, 1, << >>, << >>, << >>, 1)
    ELSE FlattenBase(X, Y)

\* ------------------------------------------------------------- inverse_flatten
\* if len(Z) <= len(Y): the guard made non-strict.
Regroups_NonStrict(Y, Z) == PyLen(Z) <= PyLen(Y)

\* if len(Z) < len(Y)
Regroups(Y, Z) == PyLen(Z) < PyLen(Y)

RECURSIVE regroupLoop(_, _, _, _, _)
\* The for loop of inverse_flatten over Z from entry iz on, with cursor cidx
\* and the groups cut so far: the groups of V.
regroupLoop(V, Z, iz, cidx, acc) ==
    IF iz > PyLen(Z) THEN acc
    ELSE LET z == Z.items[iz].v IN
         regroupLoop(V, Z, iz + 1, cidx + z,
                     Append(acc, PySlice(V, cidx, cidx + z)))

\* Learner.inverse_flatten(X, Y, Z) for sequences X, Y, Z: the returned pair.
inverse_flatten(X, Y, Z) ==
    IF Regroups(Y, Z)
    THEN [X |-> numpy_array(regroupLoop(X, Z, 1, 0, << >>)),
          Y |-> numpy_array(regroupLoop(Y, Z, 1, 0, << >>))]
    ELSE [X |-> X, Y |-> Y]

\* ------------------------------------------------------------- state
VARIABLES
    call,     \* the direct call of flatten / inverse_flatten under test
    res,      \* what flatten gave back for it
    inv,      \* what inverse_flatten gave back for it
    obj,      \* the Learner instances: their cached _X, _Y, _Z
    hist,     \* per instance: how far it has been used
    fs,       \* the files that exist, with their content
    session,  \* whether the module-level name session is bound
    last      \* the last Learner call: what it raised and what it handed on

vars == <<call, res, inv, obj, hist, fs, session, last>>

\* ------------------------------------------------------------- inputs
SeqsUpTo(S, n) == UNION {[1..k -> S] : k \in 0..n}

\* A leaf of X is a feature vector (a sized object) or a bare scalar; a leaf of
\* Y is a scalar label.
Vec1 == List(<<Atom(10)>>)
Vec2 == List(<<Atom(20), Atom(21)>>)
VecPairs == {[X |-> Vec1, Y |-> Atom(0)], [X |-> Vec2, Y |-> Atom(1)]}
ScalarPair == [X |-> Atom(30), Y |-> Atom(1)]
LeafPairs == VecPairs \cup {ScalarPair}

\* The parallel pairs (X, Y) one level above the pairs of S, with at most n
\* elements.
Level(S, n) ==
    {[X |-> List([i \in 1..Len(f) |-> f[i].X]),
      Y |-> List([i \in 1..Len(f) |-> f[i].Y])] : f \in SeqsUpTo(S, n)}

FlatPairs == Level(LeafPairs, MaxLen)
\* One level of nesting: groups of vector-valued leaves, and groups of bare
\* scalars.
OneLevelPairs ==
    Level(Level(VecPairs, MaxLen), MaxGroups)
        \cup Level(Level({ScalarPair}, MaxLen), MaxGroups)
TwoLevelPairs ==
    Level(Level(Level({[X |-> Vec1, Y |-> Atom(0)]}, MaxLen), MaxGroups),
          MaxOuter)
\* X longer than Y, and a scalar X beside a sequence Y.
MismatchedPairs ==
    {[X |-> List(<<Vec1, Vec2>>), Y |-> List(<<Atom(0)>>)],
     [X |-> Atom(30), Y |-> List(<<Atom(0)>>)]}

FlattenInputs ==
    {[X |-> p.X, Y |-> p.Y, Z |-> None] :
        p \in LeafPairs \cup FlatPairs \cup OneLevelPairs \cup TwoLevelPairs
              \cup MismatchedPairs}

\* The i-th row of a flat X.
Row(i) == List(<<Atom(100 + i)>>)
Labels == {0, 1}

\* Flat X and Y of equal length (both lists or both arrays) with a record Z of
\* non-negative group sizes.
InverseInputs ==
    {[X |-> [k |-> kind, v |-> 0, items |-> [i \in 1..Len(y) |-> Row(i)]],
      Y |-> [k |-> kind, v |-> 0, items |-> [i \in 1..Len(y) |-> Atom(y[i])]],
      Z |-> List([i \in 1..Len(z) |-> Atom(z[i])])] :
        kind \in {"list", "arr"},
        y \in SeqsUpTo(Labels, MaxFlat),
        z \in SeqsUpTo(0..MaxZ, MaxZLen)}

NoFlat == Raised("notcalled", 0)
NoInv == [X |-> None, Y |-> None]

\* ------------------------------------------------------------- Learner state
Insts == {1, 2}

\* _X = None; _Y = None; _Z = None: the class attributes every instance starts
\* from.
ClassAttrs == [X |-> None, Y |-> None, Z |-> None]

\* A path: its directories and its file name.
NoPath == [dir |-> << >>, name |-> ""]

\* What is recorded of a Learner call: the method, the instance, the
\* exception raised ("none" when it returned), what kind of value it returned,
\* whether the transform pipeline's fit_transform and the model's predict
\* were invoked, the Y that inverse_flatten returned, the arguments handed to
\* the pipeline's inverse_fit_transform, and for save and load the file name
\* given and the path written or read.
NoLast ==
    [op |-> "none", inst |-> 0, exc |-> "none", ret |-> "none",
     vecCalled |-> FALSE, predictCalled |-> FALSE, invY |-> None,
     handedX |-> None, handedY |-> None, arg |-> NoPath, path |-> NoPath]

IdleLearner ==
    /\ obj = [i \in Insts |-> [alive |-> i = 1, cache |-> ClassAttrs]]
    /\ hist = [i \in Insts |-> "new"]
    /\ fs = << >>
    /\ session = "unbound"
    /\ last = NoLast

\* ------------------------------------------------------------- direct calls
InitFn ==
    /\ \E a \in FlattenInputs \cup InverseInputs :
          call = [op |-> "init", X |-> a.X, Y |-> a.Y, Z |-> a.Z]
    /\ res = NoFlat
    /\ inv = NoInv
    /\ IdleLearner

\* flatten(X, Y)
CallFlatten ==
    /\ call.op = "init"
    /\ call.Z = None
    /\ call' = [call EXCEPT !.op = "flatten"]
    /\ res' = flatten(call.X, call.Y)
    /\ UNCHANGED <<inv, obj, hist, fs, session, last>>

\* inverse_flatten(X, Y, Z)
CallInverseFlatten ==
    /\ call.op = "init"
    /\ call.Z # None
    /\ call' = [call EXCEPT !.op = "inverse_flatten"]
    /\ inv' = inverse_flatten(call.X, call.Y, call.Z)
    /\ UNCHANGED <<res, obj, hist, fs, session, last>>

\* inverse_flatten(*flatten(X, Y)), once flatten has returned its triple
CallRoundTrip ==
    /\ call.op = "flatten"
    /\ res.exc = "none"
    /\ res.arity = 3
    /\ call' = [call EXCEPT !.op = "round_trip"]
    /\ inv' = inverse_flatten(res.fX, res.fY, res.fZ)
    /\ UNCHANGED <<res, obj, hist, fs, session, last>>

NextFn == CallFlatten \/ CallInverseFlatten \/ CallRoundTrip

SpecFn == InitFn /\ [][NextFn]_vars

\* ------------------------------------------------------------- shapes
\* The sum of the first n entries of a group-size record.
RECURSIVE SumFirst(_, _)
SumFirst(Z, n) == IF n = 0 THEN 0 ELSE SumFirst(Z, n - 1) + Z.items[n].v

SumZ(Z) == SumFirst(Z, PyLen(Z))

\* A sequence whose elements are all scalars.
IsFlatSeq(V) == IsSeq(V) /\ \A i \in 1..PyLen(V) : V.items[i].k = "atom"

\* A sequence whose elements are all sequences: at least two levels.
IsNested(V) == IsSeq(V) /\ \A i \in 1..PyLen(V) : IsSeq(V.items[i])

\* Exactly one level of nesting: a sequence of flat sequences.
IsOneLevel(V) == IsSeq(V) /\ \A i \in 1..PyLen(V) : IsFlatSeq(V.items[i])

\* The elements of the groups of G, in order.
RECURSIVE ConcatFirst(_, _)
ConcatFirst(G, n) ==
    IF n = 0 THEN << >> ELSE ConcatFirst(G, n - 1) \o G.items[n].items

\* G cuts the flat sequence F into the groups Z records.
GroupedBy(G, F, Z) ==
    /\ PyLen(G) = PyLen(Z)
    /\ \A i \in 1..PyLen(G) :
          IsSeq(G.items[i]) /\ PyLen(G.items[i]) = Z.items[i].v
    /\ ConcatFirst(G, PyLen(G)) = F.items

\* Group i of G is the Z[i] elements of F from offset Z[1] + ... + Z[i-1].
SlicedBy(G, F, Z) ==
    /\ PyLen(G) = PyLen(Z)
    /\ \A i \in 1..PyLen(Z) :
          G.items[i].items =
              [j \in 1..Z.items[i].v |-> F.items[SumFirst(Z, i - 1) + j]]

\* ------------------------------------------------------------- claims C1-C5
\* C1: for flat X, Y of equal length, inverse_flatten(X, Y, []) returns
\* (X, Y) unchanged: an empty Z never causes regrouping.
C1_EmptyZIsNoOp ==
    (call.op = "inverse_flatten" /\ PyLen(call.Z) = 0
        /\ PyLen(call.X) = PyLen(call.Y))
    => inv = [X |-> call.X, Y |-> call.Y]

\* C2 as stated: for a flat sequence Y of scalars and a parallel X,
\* flatten(X, Y) returns ([X], [Y]) with no recursion and no Z.
C2_FlatYIsWrapped ==
    (call.op = "flatten" /\ IsFlatSeq(call.Y) /\ IsSeq(call.X)
        /\ PyLen(call.X) = PyLen(call.Y))
    => /\ res.exc = "none"
       /\ res.fX = List(<<call.X>>)
       /\ res.fY = List(<<call.Y>>)
       /\ res.fZ \in {None, List(<< >>)}
       /\ res.calls = 1

\* C2 amended: flatten returns the pair ([X], [Y]), with no recursion and no
\* Z, exactly when Y itself is a scalar; for a flat sequence Y of scalars and
\* a parallel X of sized elements it makes one recursive call per element and
\* returns (array(X), array(Y), Z) with Z[i] = len(X[i]).
C2_BaseCaseIsScalarY ==
    /\ (call.op = "flatten" /\ ~IsSeq(call.Y))
       => /\ res.exc = "none" /\ res.arity = 2 /\ res.calls = 1
          /\ res.fX = List(<<call.X>>)
          /\ res.fY = List(<<call.Y>>)
          /\ res.fZ = None
    /\ (call.op = "flatten" /\ IsSeq(call.Y) /\ res.exc = "none")
       => res.arity = 3
    /\ (call.op = "flatten" /\ IsFlatSeq(call.Y) /\ IsNested(call.X)
           /\ PyLen(call.X) = PyLen(call.Y))
       => /\ res.exc = "none" /\ res.arity = 3
          /\ res.calls = 1 + PyLen(call.Y)
          /\ res.fX = Arr(call.X.items)
          /\ res.fY = Arr(call.Y.items)
          /\ res.fZ = List([i \in 1..PyLen(call.X) |->
                               Atom(PyLen(call.X.items[i]))])

\* A flat Y of two labels has been flattened, and Z came back with two
\* entries.
C2_Witness ==
    /\ call.op = "flatten"
    /\ IsFlatSeq(call.Y) /\ IsNested(call.X)
    /\ PyLen(call.Y) = 2 /\ PyLen(call.X) = 2
    /\ res.arity = 3 /\ PyLen(res.fZ) = 2

\* C3: for nested X, Y of matching shape, of any depth of at least two
\* levels, flatten's result has sum(Z) = len(flatX) = len(flatY).
C3_SumZIsFlatLength ==
    (call.op = "flatten" /\ IsNested(call.Y) /\ res.exc = "none")
    => /\ SumZ(res.fZ) = PyLen(res.fX)
       /\ PyLen(res.fX) = PyLen(res.fY)

\* C4 as stated: for every X, Y with one level of nesting, whatever the
\* group sizes, inverse_flatten(*flatten(X, Y)) gives len(Z) groups, the
\* i-th of Z[i] elements, whose concatenation is the flattened sequence.
C4_RoundTripAlways ==
    (call.op = "round_trip" /\ IsOneLevel(call.Y))
    => /\ GroupedBy(inv.Y, res.fY, res.fZ)
       /\ GroupedBy(inv.X, res.fX, res.fZ)

\* C4 amended: for X, Y with one level of nesting on which flatten returns,
\* inverse_flatten(*flatten(X, Y)) regroups as stated when there are fewer
\* groups than flattened elements (len(Z) < len(fY)), and otherwise returns
\* fX, fY as they are.
C4_RoundTripWhenFewerGroups ==
    (call.op = "round_trip" /\ IsOneLevel(call.Y))
    => IF PyLen(res.fZ) < PyLen(res.fY)
       THEN /\ GroupedBy(inv.Y, res.fY, res.fZ)
            /\ GroupedBy(inv.X, res.fX, res.fZ)
       ELSE inv = [X |-> res.fX, Y |-> res.fY]

\* Two groups, three flattened elements, regrouped.
C4_Witness ==
    /\ call.op = "round_trip"
    /\ IsOneLevel(call.Y)
    /\ PyLen(res.fZ) = 2 /\ PyLen(res.fY) = 3
    /\ PyLen(inv.Y) = 2

\* C5: for flat X, Y of equal length and non-negative group sizes Z, when
\* len(Z) < len(Y) and sum(Z) <= len(Y), inverse_flatten returns len(Z) groups
\* of X and of Y, group i being the Z[i] elements from offset
\* Z[1] + ... + Z[i-1], in order, X and Y cut at the same places.
C5_GroupsAreSlices ==
    (call.op = "inverse_flatten" /\ PyLen(call.Z) < PyLen(call.Y)
        /\ SumZ(call.Z) <= PyLen(call.Y))
    => /\ SlicedBy(inv.X, call.X, call.Z)
       /\ SlicedBy(inv.Y, call.Y, call.Z)

\* Three elements cut by Z = [2, 1].
C5_Witness ==
    /\ call.op = "inverse_flatten"
    /\ PyLen(call.Y) = 3
    /\ call.Z = List(<<Atom(2), Atom(1)>>)
    /\ PyLen(inv.Y) = 2

\* ------------------------------------------------------------- files
\* The file names given to save and load: a bare name and a path with a
\* directory.
Filenames == {[dir |-> << >>, name |-> "m"], [dir |-> <<"d">>, name |-> "m"]}

\* session.models
ModelsDir == <<"models">>

\* os.path.basename(p)
Basename(p) == [p EXCEPT !.dir = << >>]

\* p + ext
WithExt(p, ext) == [p EXCEPT !.name = @ \o ext]

\* os.path.join(d, p) for a relative p
Join(d, p) == [p EXCEPT !.dir = d \o @]

\* os.path.exists(p)
Exists(p) == p \in DOMAIN fs

\* The file system after p is written with content c.
Write(p, c) == [q \in DOMAIN fs \cup {p} |-> IF q = p THEN c ELSE fs[q]]

\* A file that is no pickle of a Learner, and a configuration file.
Junk == [kind |-> "junk", cache |-> ClassAttrs]
Yml == [kind |-> "yml", cache |-> ClassAttrs]

\* The files the environment may hold before the first call: a file m in the
\* working directory that is no pickle, a configuration m.yml in the models
\* directory.
EnvFiles(junk, yml) ==
    LET a == [dir |-> << >>, name |-> "m"]
        b == [dir |-> ModelsDir, name |-> "m.yml"]
        D == (IF junk THEN {a} ELSE {}) \cup (IF yml THEN {b} ELSE {})
    IN  [q \in D |-> IF q = a THEN Junk ELSE Yml]

\* ------------------------------------------------------------- collaborators
\* What the transform pipeline's fit_transform may give back: one of these
\* (tX, tY), or an exception.
PipelineRaises == [raises |-> TRUE, X |-> None, Y |-> None]
Datasets ==
    {[raises |-> FALSE, X |-> Vec1, Y |-> Atom(0)],
     [raises |-> FALSE, X |-> List(<<Atom(30)>>), Y |-> List(<<Atom(0)>>)],
     [raises |-> FALSE, X |-> List(<<Vec1, Vec2>>),
      Y |-> List(<<Atom(0), Atom(1)>>)],
     [raises |-> FALSE, X |-> List(<<List(<<Vec1, Vec2>>), List(<<Vec1>>)>>),
      Y |-> List(<<List(<<Atom(0), Atom(1)>>), List(<<Atom(1)>>)>>)]}
PipelineResults == Datasets \cup {PipelineRaises}

\* What the model's predict gives back for n rows: an array of n labels, the
\* i-th written 70 + i so that every position can be told apart.
Predicted(n) == Arr([i \in 1..n |-> Atom(70 + i)])

\* ------------------------------------------------------------- history
\* How far an instance has been used: "new", then "used" while only transform
\* and save have been called on it, "fitCalled" once a fit, fit_transform or
\* fit_predict has been called on it, "fitDone" once a fit has returned.
HistAfterUse(h) == IF h = "new" THEN "used" ELSE h

HistAfterFit(h, fitReturned) ==
    IF fitReturned \/ h = "fitDone" THEN "fitDone" ELSE "fitCalled"

\* ------------------------------------------------------------- Learner methods
\* fit(X, Y) on an instance with cached state c, where the pipeline gives d
\* and the model's fit returns (mfit) or raises: the exception and the cached
\* state after the call.
FitOutcome(c, d, mfit) ==
    IF d.raises THEN [exc |-> "TransformError", cache |-> c]
    ELSE LET r == flatten(d.X, d.Y) IN
         IF r.exc # "none" THEN [exc |-> r.exc, cache |-> c]
         ELSE IF r.arity # 3 THEN [exc |-> "ValueError", cache |-> c]
         ELSE [exc |-> IF mfit THEN "none" ELSE "ModelFitError",
               cache |-> [X |-> r.fX, Y |-> r.fY, Z |-> r.fZ]]

\* The outcomes of fit on cached state c, over what the pipeline and the
\* model's fit may do.
FitOutcomes(c) ==
    {FitOutcome(c, d, mfit) : d \in PipelineResults, mfit \in BOOLEAN}

\* predict's guard with the check left out.
NotFit_Dropped(c) == FALSE

\* if self._Y is None
NotFit(c) == c.Y = None

\* The rows predict hands to the model's predict, when it gets that far.
PredictRows(c, d) ==
    IF NotFit(c) \/ d.raises THEN 0
    ELSE LET r == flatten(d.X, d.Y) IN
         IF r.exc # "none" \/ r.arity # 3 THEN 0 ELSE PyLen(r.fX)

\* predict(X) on instance i, where the pipeline gives d and the model's
\* predict returns pY (mpred) or raises.
PredictOutcome(i, d, mpred, pY) ==
    LET c == obj[i].cache
        base == [NoLast EXCEPT !.op = "predict", !.inst = i]
    IN  IF NotFit(c) THEN [base EXCEPT !.exc = "NotFit"]
        ELSE IF d.raises
        THEN [base EXCEPT !.exc = "TransformError", !.vecCalled = TRUE]
        ELSE LET r == flatten(d.X, d.Y) IN
             IF r.exc # "none"
             THEN [base EXCEPT !.exc = r.exc, !.vecCalled = TRUE]
             ELSE IF r.arity # 3
             THEN [base EXCEPT !.exc = "ValueError", !.vecCalled = TRUE]
             ELSE IF ~mpred
             THEN [base EXCEPT !.exc = "PredictError", !.vecCalled = TRUE,
                               !.predictCalled = TRUE]
             ELSE LET g == inverse_flatten(r.fX, pY, r.fZ) IN
                  [base EXCEPT !.ret = "rY", !.vecCalled = TRUE,
                               !.predictCalled = TRUE, !.invY = g.Y,
                               !.handedX = g.X, !.handedY = pY]

\* fit_predict(X, Y) on instance i once its fit has left the cached state c:
\* the model's predict returns pY (mpred) or raises.
FitPredictOutcome(i, c, mpred, pY) ==
    LET base == [NoLast EXCEPT !.op = "fit_predict", !.inst = i,
                               !.vecCalled = TRUE, !.predictCalled = TRUE]
    IN  IF ~mpred THEN [base EXCEPT !.exc = "PredictError"]
        ELSE LET g == inverse_flatten(c.X, pY, c.Z) IN
             [base EXCEPT !.ret = "rY", !.invY = g.Y, !.handedX = g.X,
                          !.handedY = g.Y]

\* The outcomes of predict on instance i, over what the pipeline and the
\* model's predict may do.
PredictOutcomes(i) ==
    {PredictOutcome(i, d, mpred, Predicted(PredictRows(obj[i].cache, d))) :
        d \in PipelineResults, mpred \in BOOLEAN}

\* The outcomes of fit_predict on instance i whose fit ended as f.
FitPredictOutcomes(i, f) ==
    IF f.exc # "none"
    THEN {[NoLast EXCEPT !.op = "fit_predict", !.inst = i, !.exc = f.exc,
                         !.vecCalled = TRUE]}
    ELSE {FitPredictOutcome(i, f.cache, mpred, Predicted(PyLen(f.cache.X))) :
             mpred \in BOOLEAN}

\* save dumping the instance itself.
SavedObject_Self(c) == c

\* self.__class__(transform=self.vectorizer.clone(), model=self.model): the
\* cached state of the object save dumps, a new instance.
SavedObject(c) == ClassAttrs

\* The path save writes.
SavePath(f, archive) ==
    IF archive THEN Join(ModelsDir, WithExt(Basename(f), ".pkl")) ELSE f

\* load(f): the exception, the kind of value returned and the path read.
LoadOutcome(f) ==
    LET pkl == Join(ModelsDir, WithExt(f, ".pkl"))
        yml == Join(ModelsDir, WithExt(f, ".yml"))
    IN  IF Exists(f)
        THEN IF fs[f].kind = "pkl"
             THEN [exc |-> "none", ret |-> "Learner", path |-> f]
             ELSE [exc |-> "none", ret |-> "None", path |-> f]
        ELSE IF session = "unbound"
        THEN [exc |-> "NameError", ret |-> "none", path |-> NoPath]
        ELSE IF Exists(pkl)
        THEN IF fs[pkl].kind = "pkl"
             THEN [exc |-> "none", ret |-> "Learner", path |-> pkl]
             ELSE [exc |-> "UnpicklingError", ret |-> "none", path |-> pkl]
        ELSE IF Exists(yml)
        THEN [exc |-> "none", ret |-> "None", path |-> yml]
        ELSE [exc |-> "CannotLoad", ret |-> "none", path |-> NoPath]

\* ------------------------------------------------------------- actions
Init ==
    /\ call = [op |-> "idle", X |-> None, Y |-> None, Z |-> None]
    /\ res = NoFlat
    /\ inv = NoInv
    /\ obj = [i \in Insts |-> [alive |-> i = 1, cache |-> ClassAttrs]]
    /\ hist = [i \in Insts |-> "new"]
    /\ \E junk \in BOOLEAN, yml \in BOOLEAN : fs = EnvFiles(junk, yml)
    /\ session \in {"unbound", "bound"}
    /\ last = NoLast

\* transform(X, Y)
Transform(i) ==
    /\ obj[i].alive
    /\ \E raises \in {d.raises : d \in PipelineResults} :
          last' = [NoLast EXCEPT !.op = "transform", !.inst = i,
                                 !.vecCalled = TRUE,
                                 !.exc = IF raises THEN "TransformError"
                                         ELSE "none",
                                 !.ret = IF raises THEN "none" ELSE "XY"]
    /\ hist' = [hist EXCEPT ![i] = HistAfterUse(@)]
    /\ UNCHANGED <<call, res, inv, obj, fs, session>>

\* fit(X, Y)
Fit(i) ==
    /\ obj[i].alive
    /\ \E f \in FitOutcomes(obj[i].cache) :
          /\ obj' = [obj EXCEPT ![i].cache = f.cache]
          /\ hist' = [hist EXCEPT ![i] = HistAfterFit(@, f.exc = "none")]
          /\ last' = [NoLast EXCEPT !.op = "fit", !.inst = i, !.exc = f.exc,
                                    !.vecCalled = TRUE,
                                    !.ret = IF f.exc = "none" THEN "self"
                                            ELSE "none"]
    /\ UNCHANGED <<call, res, inv, fs, session>>

\* fit_transform(X, Y)
FitTransform(i) ==
    /\ obj[i].alive
    /\ \E f \in FitOutcomes(obj[i].cache) :
          /\ obj' = [obj EXCEPT ![i].cache = f.cache]
          /\ hist' = [hist EXCEPT ![i] = HistAfterFit(@, f.exc = "none")]
          /\ last' = [NoLast EXCEPT !.op = "fit_transform", !.inst = i,
                                    !.exc = f.exc, !.vecCalled = TRUE,
                                    !.ret = IF f.exc = "none" THEN "XY"
                                            ELSE "none"]
    /\ UNCHANGED <<call, res, inv, fs, session>>

\* fit_predict(X, Y)
FitPredict(i) ==
    /\ obj[i].alive
    /\ \E f \in FitOutcomes(obj[i].cache) :
          /\ obj' = [obj EXCEPT ![i].cache = f.cache]
          /\ hist' = [hist EXCEPT ![i] = HistAfterFit(@, f.exc = "none")]
          /\ \E l \in FitPredictOutcomes(i, f) : last' = l
    /\ UNCHANGED <<call, res, inv, fs, session>>

\* predict(X)
Predict(i) ==
    /\ obj[i].alive
    /\ \E l \in PredictOutcomes(i) : last' = l
    /\ UNCHANGED <<call, res, inv, obj, hist, fs, session>>

\* save(filename, archive)
Save(i) ==
    /\ obj[i].alive
    /\ \E f \in Filenames, archive \in BOOLEAN :
          IF archive /\ session = "unbound"
          THEN /\ last' = [NoLast EXCEPT !.op = "save", !.inst = i,
                                         !.exc = "NameError", !.arg = f]
               /\ fs' = fs
          ELSE /\ last' = [NoLast EXCEPT !.op = "save", !.inst = i,
                                         !.arg = f,
                                         !.path = SavePath(f, archive)]
               /\ fs' = Write(SavePath(f, archive),
                              [kind |-> "pkl",
                               cache |-> SavedObject(obj[i].cache)])
    /\ hist' = [hist EXCEPT ![i] = HistAfterUse(@)]
    /\ UNCHANGED <<call, res, inv, obj, session>>

\* Learner.load(filename): the object it returns becomes instance 2.
Load ==
    /\ \E f \in Filenames :
          LET o == LoadOutcome(f) IN
          /\ last' = [NoLast EXCEPT !.op = "load", !.exc = o.exc,
                                    !.ret = o.ret, !.arg = f,
                                    !.path = o.path]
          /\ IF o.ret = "Learner"
             THEN /\ obj' = [obj EXCEPT ![2] = [alive |-> TRUE,
                                                cache |-> fs[o.path].cache]]
                  /\ hist' = [hist EXCEPT ![2] = "new"]
             ELSE UNCHANGED <<obj, hist>>
    /\ UNCHANGED <<call, res, inv, fs, session>>

Next ==
    \/ \E i \in Insts : Transform(i)
    \/ \E i \in Insts : Fit(i)
    \/ \E i \in Insts : FitTransform(i)
    \/ \E i \in Insts : FitPredict(i)
    \/ \E i \in Insts : Predict(i)
    \/ \E i \in Insts : Save(i)
    \/ Load

Spec == Init /\ [][Next]_vars

\* ------------------------------------------------------------- claims C6-C10
\* The instance has had no fit, fit_transform or fit_predict called on it.
NeverFitCalled(i) == hist[i] \in {"new", "used"}

\* C6: on an instance on which fit, fit_transform and fit_predict have never
\* been called, predict raises the 'model not fit' error, whatever transform
\* and save calls came before, and raises it before the transform pipeline or
\* the model's predict is invoked.
C6_UnfitPredictRaises ==
    (last.op = "predict" /\ NeverFitCalled(last.inst))
    => /\ last.exc = "NotFit"
       /\ ~last.vecCalled
       /\ ~last.predictCalled

\* predict has raised on instance 1, which has been used (transform or save)
\* but never fit, and a file it saved exists.
C6_Witness ==
    /\ last.op = "predict" /\ last.inst = 1 /\ last.exc = "NotFit"
    /\ hist[1] = "used"
    /\ \E p \in DOMAIN fs : fs[p].kind = "pkl"

\* C7: load(name) fails with the 'cannot load model' error, and with no other
\* error and no return value, whenever name is no existing path and neither
\* name.pkl nor name.yml exists in the models directory.
C7_MissingFileIsLoadError ==
    (/\ last.op = "load"
     /\ ~Exists(last.arg)
     /\ ~Exists(Join(ModelsDir, WithExt(last.arg, ".pkl")))
     /\ ~Exists(Join(ModelsDir, WithExt(last.arg, ".yml"))))
    => last.exc = "CannotLoad" /\ last.ret = "none"

\* C8: the cached _X, _Y, _Z are not persisted: every object save has written
\* carries them unset, a save leaves the saving instance's own cached state
\* as it was, and predict on a loaded instance raises the 'model not fit'
\* error as long as no fit has been called on it.
C8_CacheNotPersisted ==
    /\ [](\A p \in DOMAIN fs : fs[p].kind = "pkl" => fs[p].cache = ClassAttrs)
    /\ [][last'.op = "save" => obj' = obj]_vars
    /\ []((last.op = "predict" /\ last.inst = 2 /\ NeverFitCalled(2))
          => last.exc = "NotFit")

\* An instance whose fit has returned, with its cached state set, has just
\* saved, and the file written carries no cached state.
C8_Witness ==
    /\ last.op = "save" /\ last.exc = "none"
    /\ last.inst \in Insts
    /\ hist[last.inst] = "fitDone"
    /\ obj[last.inst].cache.Y # None
    /\ Exists(last.path)
    /\ fs[last.path] = [kind |-> "pkl", cache |-> ClassAttrs]

\* The exceptions with which fit itself ends: from the transform pipeline,
\* from flatten, from unpacking its result, from the model's fit.
FitFailures ==
    {"TransformError", "TypeError", "IndexError", "ValueError",
     "ModelFitError"}

\* C9: a fit that fails leaves _X, _Y, _Z as they were before the call, so
\* that predict still raises the 'model not fit' error on an instance on which
\* no fit has ever returned.
C9_FailedFitKeepsCache ==
    /\ [][(last'.op \in {"fit", "fit_transform", "fit_predict"}
             /\ last'.exc \in FitFailures)
          => obj'[last'.inst].cache = obj[last'.inst].cache]_vars
    /\ []((last.op = "predict" /\ hist[last.inst] # "fitDone")
          => last.exc = "NotFit")

\* C10: in predict as in fit_predict, the predictions handed to the
\* pipeline's inverse_fit_transform are those inverse_flatten returned.
C10_SameBridge ==
    (last.op \in {"predict", "fit_predict"} /\ last.ret = "rY")
    => last.handedY = last.invY

====
